---- MODULE Spec2Model ----
(***************************************************************************)
(* The Node classes of pytrees as a state machine over a small heap.       *)
(*                                                                         *)
(* A Python list is an object: two nodes whose children attribute refers   *)
(* to the same list object see each other's appends and removes.  The      *)
(* heap is therefore modelled explicitly: children[n] is the reference     *)
(* held by node n and lists[r] is the content of list object r.  List      *)
(* object DefaultList is the one list that the expression `children = []`  *)
(* in the signature of __init__ creates, once, when the class is defined.  *)
(*                                                                         *)
(* Spec    constructs src/experimental/simplenode.py Nodes.                *)
(* SpecPy  constructs src/pytrees/node.py Nodes.                           *)
(* Both classes have the fields parent, identity and children, so the two  *)
(* specifications share the variables; max_children is stored only by the  *)
(* simplenode class.                                                       *)
(*                                                                         *)
(* The queries are applied to trees that add_child has built:              *)
(* SpecTree      lowest_common_ancestor, get_path, get_distance and the    *)
(*               traversals of simplenode (and of pytrees) on forests of   *)
(*               MaxTree nodes and on the 12-node example tree;            *)
(* SpecStop      the simplenode traversals called with a callback;         *)
(* SpecDict      simplenode's from_dict applied to to_dict;                *)
(* SpecPyForest  pytrees' get_siblings;                                    *)
(* SpecPyTree    the Tree class of src/pytrees/tree.py.                    *)
(***************************************************************************)
EXTENDS Integers, Sequences, FiniteSets, TLC

\* ------------------------------------------------------------------ bounds
MaxNodes == 2          \* nodes that can be constructed
MaxLen == 2            \* longest list the model lets a list object grow to
MaxCap == 2            \* largest max_children passed to a constructor
MaxOps == 4            \* calls made by the client program
MaxTree == 4           \* nodes of the trees the query specifications start from

\* ------------------------------------------------------------- vocabulary
None == 0
NodeIds == 1..MaxNodes
DefaultList == 0
ListRefs == 0..MaxNodes
\* the identity a client gives its n-th node (the example trees number their nodes)
IdentityOf(n) == {n}
Caps == 1..MaxCap

VARIABLES
    nnodes,        \* nodes 1..nnodes have been constructed
    parent,        \* parent[n]       : Node._parent   (None or a node)
    identity,      \* identity[n]     : Node._identity (None or a value)
    max_children,  \* max_children[n] : Node._max_children (-1 encodes None)
    children,      \* children[n]     : the list object Node._children refers to
    lists,         \* lists[r]        : content of list object r
    last,          \* the call that produced this state, and its outcome
    ops,           \* number of calls made so far
    tree           \* the pytrees Tree object: Tree.root, Tree.max_children

vars == <<nnodes, parent, identity, max_children, children, lists, last, ops, tree>>

NoCap == -1
Constructed == 1..nnodes

\* ------------------------------------------------------------ list helpers
Elems(s) == {s[i] : i \in 1..Len(s)}
Contains(s, x) == \E i \in 1..Len(s) : s[i] = x
Count(s, x) == Cardinality({i \in 1..Len(s) : s[i] = x})
SeqsUpTo(S, k) == UNION {[1..m -> S] : m \in 0..k}
Min(S) == CHOOSE x \in S : \A y \in S : x <= y

\* the children property: the content of the list object the node refers to
ChildrenOf(n) == lists[children[n]]

\* list.append(x)
ListAppend_front(s, x) == <<x>> \o s
ListAppend(s, x) == Append(s, x)

\* list.extend(xs)
ListExtend(s, xs) == s \o xs

\* list.remove(x): deletes the first element equal to x (the caller has
\* checked that there is one; otherwise list.remove raises ValueError)
FirstIndex(s, x) == Min({i \in 1..Len(s) : s[i] = x})
ListRemove(s, x) ==
    SubSeq(s, 1, FirstIndex(s, x) - 1) \o SubSeq(s, FirstIndex(s, x) + 1, Len(s))

\* the statement lst.remove(x): the list afterwards and the exception raised
list_remove_silent(s, x) ==
    IF Contains(s, x) THEN [lst |-> ListRemove(s, x), err |-> ""]
    ELSE [lst |-> s, err |-> ""]
list_remove(s, x) ==
    IF Contains(s, x) THEN [lst |-> ListRemove(s, x), err |-> ""]
    ELSE [lst |-> s, err |-> "ValueError"]

\* a fresh list object for node n: one that no other constructed node refers to
NewListRefFor(n) ==
    Min({r \in 1..MaxNodes : \A k \in Constructed \ {n} : children[k] # r})

\* garbage collection: a list object no node refers to any more is gone (the
\* DefaultList object stays, the function object of __init__ refers to it)
Collect(nn, ch, ls) ==
    [r \in ListRefs |->
        IF r = DefaultList \/ (\E k \in 1..nn : ch[k] = r) THEN ls[r] ELSE <<>>]

\* what is remembered of a call: the method, whether the children argument
\* of a constructor call was omitted, the exception raised ("" for none) and
\* the node returned (None for a method that returns nothing)
Call(op, dflt, err, ret) ==
    [op |-> op, dflt |-> dflt, err |-> err, ret |-> ret,
     args |-> <<>>, hascb |-> FALSE, cb |-> {}, lst |-> <<>>]

\* what is remembered of a query: also its arguments (nodes), the callback
\* (hascb: one was passed; cb: the nodes for which it returns True), the
\* number or node returned (ret) and the list returned or yielded (lst)
Query(op, args, hascb, cb, err, ret, lst) ==
    [op |-> op, dflt |-> FALSE, err |-> err, ret |-> ret,
     args |-> args, hascb |-> hascb, cb |-> cb, lst |-> lst]

\* the client's variable for a pytrees Tree before any Tree is constructed
NoTree == [made |-> FALSE, root |-> None, max_children |-> NoCap]

Init ==
    /\ tree = NoTree
    /\ nnodes = 0
    /\ parent = [n \in NodeIds |-> None]
    /\ identity = [n \in NodeIds |-> None]
    /\ max_children = [n \in NodeIds |-> NoCap]
    /\ children = [n \in NodeIds |-> DefaultList]
    /\ lists = [r \in ListRefs |-> <<>>]
    /\ last = Call("start", FALSE, "", None)
    /\ ops = 0

\* ---------------------------------------------- src/experimental/simplenode.py
\* the capacity test of __init__ and of the children setter
init_raises(n, m) == m # NoCap /\ n >= m

\* the capacity test of add_child
add_child_raises_gt(p) ==
    max_children[p] # NoCap /\ Len(ChildrenOf(p)) > max_children[p]
add_child_raises(p) ==
    max_children[p] # NoCap /\ Len(ChildrenOf(p)) >= max_children[p]

\* the capacity test of add_children
add_children_raises(p, cs) ==
    max_children[p] # NoCap /\ Len(ChildrenOf(p)) + Len(cs) >= max_children[p]

\* child.parent = self for each child of cs
SetParents(par, cs, p) == [n \in NodeIds |-> IF n \in Elems(cs) THEN p ELSE par[n]]

\* Node(identity=ident, children=cs, max_children=m); dflt: the children
\* argument is omitted, so the parameter is bound to the DefaultList object.
\* The parent argument is left at its default None.
Node_init(ident, dflt, cs, m) ==
    /\ nnodes < MaxNodes
    /\ LET n == nnodes + 1
           r == IF dflt THEN DefaultList ELSE NewListRefFor(n)
           content == IF dflt THEN lists[DefaultList] ELSE cs
       IN IF init_raises(Len(content), m)
          THEN /\ last' = Call("Node", dflt, "ValueError", None)
               /\ UNCHANGED <<nnodes, parent, identity, max_children, children, lists>>
          ELSE /\ nnodes' = n
               /\ parent' = [parent EXCEPT ![n] = None]
               /\ identity' = [identity EXCEPT ![n] = ident]
               /\ max_children' = [max_children EXCEPT ![n] = m]
               /\ children' = [children EXCEPT ![n] = r]
               /\ lists' = [lists EXCEPT ![r] = content]
               /\ last' = Call("Node", dflt, "", n)

add_child(p, c) ==
    IF add_child_raises(p)
    THEN /\ last' = Call("add_child", FALSE, "ValueError", None)
         /\ UNCHANGED <<nnodes, parent, identity, max_children, children, lists>>
    ELSE /\ Len(ChildrenOf(p)) < MaxLen
         /\ lists' = [lists EXCEPT ![children[p]] = ListAppend(@, c)]
         /\ parent' = [parent EXCEPT ![c] = p]
         /\ last' = Call("add_child", FALSE, "", None)
         /\ UNCHANGED <<nnodes, identity, max_children, children>>

add_children(p, cs) ==
    IF add_children_raises(p, cs)
    THEN /\ last' = Call("add_children", FALSE, "ValueError", None)
         /\ UNCHANGED <<nnodes, parent, identity, max_children, children, lists>>
    ELSE /\ Len(ChildrenOf(p)) + Len(cs) <= MaxLen
         /\ lists' = [lists EXCEPT ![children[p]] = ListExtend(@, cs)]
         /\ parent' = SetParents(parent, cs, p)
         /\ last' = Call("add_children", FALSE, "", None)
         /\ UNCHANGED <<nnodes, identity, max_children, children>>

\* self.children.remove(child), then child.parent = None unless that raised
remove_child(p, c) ==
    LET r == list_remove(ChildrenOf(p), c)
    IN /\ lists' = [lists EXCEPT ![children[p]] = r.lst]
       /\ parent' = IF r.err = "" THEN [parent EXCEPT ![c] = None] ELSE parent
       /\ last' = Call("remove_child", FALSE, r.err, None)
       /\ UNCHANGED <<nnodes, identity, max_children, children>>

\* the loop of remove_children: it stops at the first child that is not in
\* the list (list.remove raises), keeping the removals made so far
RECURSIVE remove_children_loop(_, _, _)
remove_children_loop(lst, par, cs) ==
    IF cs = <<>> THEN [lst |-> lst, par |-> par, err |-> ""]
    ELSE LET r == list_remove(lst, Head(cs))
         IN IF r.err # "" THEN [lst |-> lst, par |-> par, err |-> r.err]
            ELSE remove_children_loop(r.lst, [par EXCEPT ![Head(cs)] = None], Tail(cs))

remove_children(p, cs) ==
    LET res == remove_children_loop(ChildrenOf(p), parent, cs)
    IN /\ lists' = [lists EXCEPT ![children[p]] = res.lst]
       /\ parent' = res.par
       /\ last' = Call("remove_children", FALSE, res.err, None)
       /\ UNCHANGED <<nnodes, identity, max_children, children>>

clear_children(p) ==
    /\ parent' = [n \in NodeIds |-> IF n \in Elems(ChildrenOf(p)) THEN None ELSE parent[n]]
    /\ lists' = [lists EXCEPT ![children[p]] = <<>>]
    /\ last' = Call("clear_children", FALSE, "", None)
    /\ UNCHANGED <<nnodes, identity, max_children, children>>

\* one more call of the client program
Tick == ops < MaxOps /\ ops' = ops + 1 /\ UNCHANGED tree

\* The client of Spec builds its trees with add_child and add_children: a
\* constructor call omits the children argument or passes a new empty list.
Next ==
    \/ \E ident \in IdentityOf(nnodes + 1), m \in {NoCap} \cup Caps :
          Tick /\ Node_init(ident, TRUE, <<>>, m)
    \/ \E ident \in IdentityOf(nnodes + 1), m \in {NoCap} \cup Caps :
          Tick /\ Node_init(ident, FALSE, <<>>, m)
    \/ \E p, c \in Constructed : Tick /\ add_child(p, c)
    \/ \E p \in Constructed, cs \in SeqsUpTo(Constructed, MaxLen) : Tick /\ add_children(p, cs)
    \/ \E p, c \in Constructed : Tick /\ remove_child(p, c)
    \/ \E p \in Constructed, cs \in SeqsUpTo(Constructed, MaxLen) : Tick /\ remove_children(p, cs)
    \/ \E p \in Constructed : Tick /\ clear_children(p)

Spec == Init /\ [][Next]_vars

\* ------------------------------------------------------- src/pytrees/node.py
\* Node.__eq__ compares the bound methods self.get_depth and other.get_depth
\* (the methods are not called); two bound methods are equal exactly when they
\* are bound to the same object, so == on nodes is object identity, which is
\* the equality Contains and list_remove already use.
Node_eq(a, b) == a = b

\* the capacity test of __init__ (max_children is checked, not stored)
py_init_raises(n, m) == m # NoCap /\ n > m

\* Node(parent, identity, children, max_children)
py_Node_init(par, ident, dflt, cs, m) ==
    /\ nnodes < MaxNodes
    /\ LET n == nnodes + 1
           r == IF dflt THEN DefaultList ELSE NewListRefFor(n)
           content == IF dflt THEN lists[DefaultList] ELSE cs
       IN IF py_init_raises(Len(content), m)
          THEN /\ last' = Call("Node", dflt, "ValueError", None)
               /\ UNCHANGED <<nnodes, parent, identity, max_children, children, lists>>
          ELSE /\ nnodes' = n
               /\ parent' = [parent EXCEPT ![n] = par]
               /\ identity' = [identity EXCEPT ![n] = ident]
               /\ children' = [children EXCEPT ![n] = r]
               /\ lists' = [lists EXCEPT ![r] = content]
               /\ last' = Call("Node", dflt, "", n)
               /\ UNCHANGED max_children

\* self.children.append(child); the parent of child is not touched
py_add_child(p, c) ==
    /\ Len(ChildrenOf(p)) < MaxLen
    /\ lists' = [lists EXCEPT ![children[p]] = ListAppend(@, c)]
    /\ last' = Call("add_child", FALSE, "", None)
    /\ UNCHANGED <<nnodes, parent, identity, max_children, children>>

\* self.children.remove(child); list.remove compares with Node_eq
py_remove_child(p, c) ==
    LET r == list_remove(ChildrenOf(p), c)
    IN /\ lists' = [lists EXCEPT ![children[p]] = r.lst]
       /\ last' = Call("remove_child", FALSE, r.err, None)
       /\ UNCHANGED <<nnodes, parent, identity, max_children, children>>

set_parent(n, par) ==
    /\ parent' = [parent EXCEPT ![n] = par]
    /\ last' = Call("set_parent", FALSE, "", None)
    /\ UNCHANGED <<nnodes, identity, max_children, children, lists>>

\* self.children = <a list object of the caller with content cs>
AssignList(n, cs) ==
    LET r == NewListRefFor(n)
        ch == [children EXCEPT ![n] = r]
    IN /\ children' = ch
       /\ lists' = Collect(nnodes, ch, [lists EXCEPT ![r] = cs])

set_children(n, cs) ==
    /\ AssignList(n, cs)
    /\ last' = Call("set_children", FALSE, "", None)
    /\ UNCHANGED <<nnodes, parent, identity, max_children>>

prune(n) ==
    /\ AssignList(n, <<>>)
    /\ last' = Call("prune", FALSE, "", None)
    /\ UNCHANGED <<nnodes, parent, identity, max_children>>

clear(n) ==
    /\ AssignList(n, <<>>)
    /\ identity' = [identity EXCEPT ![n] = None]
    /\ last' = Call("clear", FALSE, "", None)
    /\ UNCHANGED <<nnodes, parent, max_children>>

\* the k-th node above n (None when the parent chain ends earlier)
RECURSIVE Up(_, _)
Up(n, k) == IF n = None \/ k = 0 THEN n ELSE Up(parent[n], k - 1)

\* get_ancestors recurses along the parent links: on a chain that never
\* reaches a root the recursion does not end and Python raises RecursionError
get_ancestors_raises(n) == Up(n, MaxNodes) # None

RECURSIVE get_ancestors(_)
get_ancestors(n) ==
    IF parent[n] = None THEN <<>> ELSE <<parent[n]>> \o get_ancestors(parent[n])

\* the list comprehension of lowest_common_ancestor
common_ancestors(a, b) ==
    SelectSeq(get_ancestors(a),
              LAMBDA x : \E i \in 1..Len(get_ancestors(b)) : Node_eq(x, get_ancestors(b)[i]))

lowest_common_ancestor(a, b) ==
    /\ last' = IF get_ancestors_raises(a) \/ get_ancestors_raises(b)
               THEN Call("lowest_common_ancestor", FALSE, "RecursionError", None)
               ELSE IF common_ancestors(a, b) = <<>>
               THEN Call("lowest_common_ancestor", FALSE, "IndexError", None)
               ELSE Call("lowest_common_ancestor", FALSE, "", common_ancestors(a, b)[1])
    /\ UNCHANGED <<nnodes, parent, identity, max_children, children, lists>>

NextPy ==
    \/ \E par \in {None} \cup Constructed, ident \in IdentityOf(nnodes + 1),
          m \in {NoCap} \cup Caps :
          Tick /\ py_Node_init(par, ident, TRUE, <<>>, m)
    \/ \E par \in {None} \cup Constructed, ident \in IdentityOf(nnodes + 1),
          m \in {NoCap} \cup Caps, cs \in SeqsUpTo(Constructed, MaxLen) :
          Tick /\ py_Node_init(par, ident, FALSE, cs, m)
    \/ \E p, c \in Constructed : Tick /\ py_add_child(p, c)
    \/ \E p, c \in Constructed : Tick /\ py_remove_child(p, c)
    \/ \E n \in Constructed, par \in {None} \cup Constructed : Tick /\ set_parent(n, par)
    \/ \E n \in Constructed, cs \in SeqsUpTo(Constructed, MaxLen) : Tick /\ set_children(n, cs)
    \/ \E n \in Constructed : Tick /\ prune(n)
    \/ \E n \in Constructed : Tick /\ clear(n)
    \/ \E a, b \in Constructed : Tick /\ lowest_common_ancestor(a, b)

SpecPy == Init /\ [][NextPy]_vars

\* ------------------------------------------------ trees the queries start from
\* The query specifications start from a forest that a client has built with
\* Node(identity=n, children=[]) for n = 1..N and one add_child(p, c) per
\* attached node: every node has a list object of its own, f[c] is the parent
\* of c (0 for a root, f[c] < c), and the children of a node were added in
\* ascending or in descending order.
Forests(N) == {f \in [1..N -> 0..N] : \A n \in 1..N : f[n] < n}

Max(S) == CHOOSE x \in S : \A y \in S : x >= y

RECURSIVE Ascending(_)
Ascending(S) == IF S = {} THEN <<>> ELSE <<Min(S)>> \o Ascending(S \ {Min(S)})

RECURSIVE Descending(_)
Descending(S) == IF S = {} THEN <<>> ELSE <<Max(S)>> \o Descending(S \ {Max(S)})

ChildList(N, f, p, desc) ==
    IF desc THEN Descending({c \in 1..N : f[c] = p})
    ELSE Ascending({c \in 1..N : f[c] = p})

\* the variables when that forest has been built; caps[n] is max_children of
\* n.  Room is left for as many nodes again (from_dict builds a second tree).
Built(N, f, desc, caps) ==
    /\ tree = NoTree
    /\ nnodes = N
    /\ parent = [n \in 1..(2 * N) |-> IF n <= N THEN f[n] ELSE None]
    /\ identity = [n \in 1..(2 * N) |-> IF n <= N THEN n ELSE None]
    /\ max_children = [n \in 1..(2 * N) |-> IF n <= N THEN caps[n] ELSE NoCap]
    /\ children = [n \in 1..(2 * N) |-> IF n <= N THEN n ELSE DefaultList]
    /\ lists = [r \in 0..(2 * N) |->
                   IF r \in 1..N THEN ChildList(N, f, r, desc) ELSE <<>>]
    /\ last = Call("start", FALSE, "", None)
    /\ ops = 0

\* inttree_dict: 1 -> [2 -> [3 -> [4 -> [5, 6]], 7 -> [8, 9]], 10 -> [11, 12]]
ExampleSize == 12
ExampleParent == <<0, 1, 2, 3, 4, 4, 2, 7, 7, 1, 10, 10>>

InitForest ==
    \E f \in Forests(MaxTree), desc \in BOOLEAN :
        Built(MaxTree, f, desc, [n \in 1..MaxTree |-> NoCap])

InitTree ==
    \/ InitForest
    \/ Built(ExampleSize, ExampleParent, FALSE, [n \in 1..ExampleSize |-> NoCap])

\* ------------------------------- queries of src/experimental/simplenode.py
RECURSIVE Flatten(_)
Flatten(ss) == IF ss = <<>> THEN <<>> ELSE Head(ss) \o Flatten(Tail(ss))

Reverse(s) == [i \in 1..Len(s) |-> s[Len(s) + 1 - i]]

\* A callback is passed (hascb) or not; cb is the set of nodes for which it
\* returns True.  preorder and postorder return at once, yielding nothing of
\* the subtree, when the callback returns False for the node.
RECURSIVE preorder_traversal(_, _, _)
preorder_traversal(n, hascb, cb) ==
    IF hascb /\ n \notin cb THEN <<>>
    ELSE <<n>> \o Flatten([i \in 1..Len(ChildrenOf(n)) |->
                              preorder_traversal(ChildrenOf(n)[i], hascb, cb)])

RECURSIVE postorder_traversal(_, _, _)
postorder_traversal(n, hascb, cb) ==
    IF hascb /\ n \notin cb THEN <<>>
    ELSE Flatten([i \in 1..Len(ChildrenOf(n)) |->
                     postorder_traversal(ChildrenOf(n)[i], hascb, cb)]) \o <<n>>

extend_front(queue, current) == ChildrenOf(current) \o queue

\* queue.extend(current.children)
extend(queue, current) == queue \o ChildrenOf(current)

\* the while loop of levelorder_traversal: popleft, yield, extend
RECURSIVE levelorder_loop(_, _)
levelorder_loop(queue, out) ==
    IF queue = <<>> THEN out
    ELSE levelorder_loop(extend(Tail(queue), Head(queue)), Append(out, Head(queue)))

levelorder_traversal_below(n, hascb, cb) == levelorder_loop(ChildrenOf(n), <<>>)

\* the callback is accepted and never called
levelorder_traversal(n, hascb, cb) == levelorder_loop(<<n>>, <<>>)

\* the while loop of upwards_traversal
RECURSIVE upwards_loop(_)
upwards_loop(current) ==
    IF current = None THEN <<>> ELSE <<current>> \o upwards_loop(parent[current])

\* the callback is accepted and never called
upwards_traversal(n, hascb, cb) == upwards_loop(n)

sn_lca_shallowest(a, b) ==
    LET ancestors == Elems(upwards_traversal(a, FALSE, {}))
        hits == SelectSeq(upwards_traversal(b, FALSE, {}), LAMBDA x : x \in ancestors)
    IN IF hits = <<>> THEN [err |-> "ValueError", ret |-> None]
       ELSE [err |-> "", ret |-> hits[Len(hits)]]

\* lowest_common_ancestor: the first node of other's chain that is in the
\* set of self's chain; ValueError when there is none
sn_lca(a, b) ==
    LET ancestors == Elems(upwards_traversal(a, FALSE, {}))
        hits == SelectSeq(upwards_traversal(b, FALSE, {}), LAMBDA x : x \in ancestors)
    IN IF hits = <<>> THEN [err |-> "ValueError", ret |-> None]
       ELSE [err |-> "", ret |-> hits[1]]

\* get_path: self_path + reversed other_path, then path.remove(ancestor)
sn_path(a, b) ==
    LET l == sn_lca(a, b)
    IN IF l.err # "" THEN [err |-> l.err, lst |-> <<>>]
       ELSE [err |-> "",
             lst |-> ListRemove(upwards_traversal(a, FALSE, {})
                                  \o Reverse(upwards_traversal(b, FALSE, {})), l.ret)]

\* get_distance: len(path)
sn_distance(a, b) ==
    LET p == sn_path(a, b)
    IN IF p.err # "" THEN [err |-> p.err, ret |-> None]
       ELSE [err |-> "", ret |-> Len(p.lst)]

\* ---- traversals of src/pytrees/node.py (no callback); the forest is the
\* same when built with Node(parent=p, identity=n, children=[]), p.add_child(n)
RECURSIVE py_preorder_traversal(_)
py_preorder_traversal(n) ==
    <<n>> \o Flatten([i \in 1..Len(ChildrenOf(n)) |->
                         py_preorder_traversal(ChildrenOf(n)[i])])

RECURSIVE py_postorder_traversal(_)
py_postorder_traversal(n) ==
    Flatten([i \in 1..Len(ChildrenOf(n)) |->
                py_postorder_traversal(ChildrenOf(n)[i])]) \o <<n>>

\* the while loop of breadth_first_traversal: pop(0), append, extend
RECURSIVE breadth_first_loop(_, _)
breadth_first_loop(queue, nodes) ==
    IF Len(queue) = 0 THEN nodes
    ELSE breadth_first_loop(Tail(queue) \o ChildrenOf(Head(queue)),
                            Append(nodes, Head(queue)))

breadth_first_traversal(n) == breadth_first_loop(<<n>>, <<>>)

NodeVars == <<nnodes, parent, identity, max_children, children, lists, ops, tree>>

sn_lowest_common_ancestor(a, b) ==
    /\ last' = Query("lowest_common_ancestor", <<a, b>>, FALSE, {},
                     sn_lca(a, b).err, sn_lca(a, b).ret, <<>>)
    /\ UNCHANGED NodeVars

get_path(a, b) ==
    /\ last' = Query("get_path", <<a, b>>, FALSE, {}, sn_path(a, b).err, None,
                     sn_path(a, b).lst)
    /\ UNCHANGED NodeVars

get_distance(a, b) ==
    /\ last' = Query("get_distance", <<a, b>>, FALSE, {}, sn_distance(a, b).err,
                     sn_distance(a, b).ret, <<>>)
    /\ UNCHANGED NodeVars

\* list(n.<kind>_traversal(callback))
Traversal(kind, n, hascb, cb) ==
    CASE kind = "preorder" -> preorder_traversal(n, hascb, cb)
      [] kind = "postorder" -> postorder_traversal(n, hascb, cb)
      [] kind = "levelorder" -> levelorder_traversal(n, hascb, cb)
      [] kind = "upwards" -> upwards_traversal(n, hascb, cb)
      [] kind = "py_preorder" -> py_preorder_traversal(n)
      [] kind = "py_postorder" -> py_postorder_traversal(n)
      [] kind = "breadth_first" -> breadth_first_traversal(n)

traverse(kind, n, hascb, cb) ==
    /\ last' = Query(kind, <<n>>, hascb, cb, "", None, Traversal(kind, n, hascb, cb))
    /\ UNCHANGED NodeVars

Kinds == {"preorder", "postorder", "levelorder", "upwards"}
PyKinds == {"py_preorder", "py_postorder", "breadth_first"}

NextTree ==
    \/ \E a, b \in Constructed : sn_lowest_common_ancestor(a, b)
    \/ \E a, b \in Constructed : get_path(a, b)
    \/ \E a, b \in Constructed : get_distance(a, b)
    \/ \E kind \in Kinds \cup PyKinds, n \in Constructed : traverse(kind, n, FALSE, {})

SpecTree == InitTree /\ [][NextTree]_vars

\* traversals called with a callback
NextStop ==
    \E kind \in Kinds, n \in Constructed, cb \in SUBSET Constructed :
        traverse(kind, n, TRUE, cb)

SpecStop == InitForest /\ [][NextStop]_vars

\* ------------------------------------------------------ to_dict / from_dict
\* to_dict: identity, the children's dictionaries in order, and max_children
\* (the key is left out when it is None, and .get gives None back)
RECURSIVE to_dict(_)
to_dict(n) ==
    [identity |-> identity[n],
     children |-> [i \in 1..Len(ChildrenOf(n)) |-> to_dict(ChildrenOf(n)[i])],
     max_children |-> max_children[n]]

Heap ==
    [nnodes |-> nnodes, parent |-> parent, identity |-> identity,
     max_children |-> max_children, children |-> children, lists |-> lists,
     err |-> "", ret |-> None, kids |-> <<>>]

\* _from_dict(node_as_dict, parent) on heap h: the node is constructed without
\* a children argument (it gets the default list, whose length the
\* constructor checks), the children are built with the node as parent, and
\* the new list is assigned through the children setter, which checks again.
\* from_dict_children is the list comprehension.
RECURSIVE from_dict_node(_, _, _)
RECURSIVE from_dict_children(_, _, _, _)
from_dict_node(h, d, par) ==
    IF init_raises(Len(h.lists[DefaultList]), d.max_children)
    THEN [h EXCEPT !.err = "ValueError"]
    ELSE LET n == h.nnodes + 1
             made == [h EXCEPT !.nnodes = n, !.parent[n] = par,
                               !.identity[n] = d.identity,
                               !.max_children[n] = d.max_children,
                               !.children[n] = DefaultList]
             built == from_dict_children(made, d.children, n, <<>>)
         IN IF built.err # "" THEN built
            ELSE IF init_raises(Len(built.kids), d.max_children)
            THEN [built EXCEPT !.err = "ValueError"]
            ELSE [built EXCEPT !.children[n] = n, !.lists[n] = built.kids,
                               !.ret = n]

from_dict_children(h, ds, par, acc) ==
    IF ds = <<>> THEN [h EXCEPT !.kids = acc]
    ELSE LET one == from_dict_node(h, Head(ds), par)
         IN IF one.err # "" THEN one
            ELSE from_dict_children(one, Tail(ds), par, Append(acc, one.ret))

\* get_size: the number of nodes preorder_traversal yields
get_size(n) == Len(preorder_traversal(n, FALSE, {}))

\* Node.from_dict(n.to_dict()); nodes built before an error are garbage
from_dict(n) ==
    /\ nnodes + get_size(n) <= Len(parent)
    /\ LET h == from_dict_node(Heap, to_dict(n), None)
       IN IF h.err # ""
          THEN /\ last' = Query("from_dict", <<n>>, FALSE, {}, h.err, None, <<>>)
               /\ UNCHANGED NodeVars
          ELSE /\ last' = Query("from_dict", <<n>>, FALSE, {}, "", h.ret, <<>>)
               /\ nnodes' = h.nnodes
               /\ parent' = h.parent
               /\ identity' = h.identity
               /\ max_children' = h.max_children
               /\ children' = h.children
               /\ lists' = h.lists
               /\ UNCHANGED <<ops, tree>>

\* max_children of a node with k children: none, exactly filled, or one free
CapFor(mode, k) ==
    CASE mode = "none" -> NoCap
      [] mode = "full" -> IF k = 0 THEN 1 ELSE k
      [] mode = "room" -> k + 1

InitDict ==
    \E f \in Forests(MaxTree), mode \in {"none", "full", "room"} :
        Built(MaxTree, f, FALSE,
              [n \in 1..MaxTree |-> CapFor(mode, Cardinality({c \in 1..MaxTree : f[c] = n}))])

NextDict == \E n \in Constructed : from_dict(n)

SpecDict == InitDict /\ [][NextDict]_vars


\* ------------------------------------- queries of src/pytrees/node.py
\* The same forests built with pytrees nodes: Node(identity=n, children=[])
\* and one p.add_child(c) per attached node, which appends c and leaves
\* c.parent alone; when linked, the client has also called c.set_parent(p).
BuiltPyNodes(N, f, desc, linked) ==
    /\ nnodes = N
    /\ parent = [n \in 1..N |-> IF linked THEN f[n] ELSE None]
    /\ identity = [n \in 1..N |-> n]
    /\ max_children = [n \in 1..N |-> NoCap]
    /\ children = [n \in 1..N |-> n]
    /\ lists = [r \in 0..N |-> IF r = DefaultList THEN <<>> ELSE ChildList(N, f, r, desc)]
    /\ last = Call("start", FALSE, "", None)
    /\ ops = 0

BuiltPy(N, f, desc, linked) == tree = NoTree /\ BuiltPyNodes(N, f, desc, linked)

InitPyForest ==
    \E f \in Forests(MaxTree), desc \in BOOLEAN, linked \in BOOLEAN :
        BuiltPy(MaxTree, f, desc, linked)

\* get_siblings: a copy of the parent's children with the first occurrence
\* of self removed; the empty list when self.parent is None
siblings_of(n) ==
    IF parent[n] # None THEN list_remove(ChildrenOf(parent[n]), n)
    ELSE [lst |-> <<>>, err |-> ""]

get_siblings(n) ==
    /\ last' = Query("get_siblings", <<n>>, FALSE, {}, siblings_of(n).err, None,
                     siblings_of(n).lst)
    /\ UNCHANGED NodeVars

NextPyForest == \E n \in Constructed : get_siblings(n)

SpecPyForest == InitPyForest /\ [][NextPyForest]_vars

\* ------------------------------------------------------ src/pytrees/tree.py
\* One Tree object, held in the client's variable `tree`.  A constructor that
\* raises leaves the variable as it was.
Step == ops < MaxOps /\ ops' = ops + 1

NodeFields == <<nnodes, parent, identity, max_children, children, lists>>

\* len(root.get_children()) > self.max_children
tree_raises(r, m) == m # NoCap /\ Len(ChildrenOf(r)) > m

\* Tree(max_children=m): root is None
Tree_init_none(m) ==
    /\ tree' = [made |-> TRUE, root |-> None, max_children |-> m]
    /\ last' = Call("Tree()", FALSE, "", None)
    /\ UNCHANGED NodeFields

Tree_init_node_unset(r, m) ==
    /\ tree' = [made |-> TRUE, root |-> None, max_children |-> m]
    /\ last' = Call("Tree(node)", FALSE, "", None)
    /\ UNCHANGED NodeFields

\* Tree(r, max_children=m) with a Node r
Tree_init_node(r, m) ==
    /\ IF tree_raises(r, m)
       THEN /\ last' = Call("Tree(node)", FALSE, "ValueError", None)
            /\ UNCHANGED tree
       ELSE /\ last' = Call("Tree(node)", FALSE, "", None)
            /\ tree' = [made |-> TRUE, root |-> r, max_children |-> m]
    /\ UNCHANGED NodeFields

\* Tree({...}): more or fewer than one key is a ValueError, and with one key
\* root.keys()[0] is a TypeError (a dict view cannot be indexed)
Tree_init_dict(size, m) ==
    /\ last' = Call("Tree(dict)", FALSE,
                    IF size # 1 THEN "ValueError" ELSE "TypeError", None)
    /\ UNCHANGED NodeFields
    /\ UNCHANGED tree

\* Tree(ident, max_children=m) with a bare identity: the root is a new
\* Node(identity=ident, max_children=m), built on the default list
Tree_init_identity(ident, m) ==
    /\ py_Node_init(None, ident, TRUE, <<>>, m)
    /\ tree' = IF last'.err = ""
               THEN [made |-> TRUE, root |-> last'.ret, max_children |-> m]
               ELSE tree

\* set_root(None)
set_root_none ==
    /\ tree.made
    /\ tree' = [tree EXCEPT !.root = None]
    /\ last' = Call("set_root(None)", FALSE, "", None)
    /\ UNCHANGED NodeFields

\* set_root(r) with a Node r: the capacity is tested and nothing is assigned
set_root_node(r) ==
    /\ tree.made
    /\ last' = Call("set_root(node)", FALSE,
                    IF tree_raises(r, tree.max_children) THEN "ValueError" ELSE "", None)
    /\ UNCHANGED NodeFields
    /\ UNCHANGED tree

\* set_root(ident) with a bare identity: the root is a new Node(identity=ident)
set_root_identity(ident) ==
    /\ tree.made
    /\ py_Node_init(None, ident, TRUE, <<>>, NoCap)
    /\ tree' = [tree EXCEPT !.root = last'.ret]

\* Tree.clear()
Tree_clear ==
    /\ tree.made
    /\ tree' = [tree EXCEPT !.root = None]
    /\ last' = Call("Tree.clear", FALSE, "", None)
    /\ UNCHANGED NodeFields

NextPyTree ==
    \/ \E ident \in IdentityOf(nnodes + 1) :
          Tick /\ py_Node_init(None, ident, FALSE, <<>>, NoCap)
    \/ \E p, c \in Constructed : Tick /\ py_add_child(p, c)
    \/ \E m \in {NoCap} \cup Caps : Step /\ Tree_init_none(m)
    \/ \E r \in Constructed, m \in {NoCap} \cup Caps : Step /\ Tree_init_node(r, m)
    \/ \E size \in 0..2, m \in {NoCap} \cup Caps : Step /\ Tree_init_dict(size, m)
    \/ \E ident \in IdentityOf(nnodes + 1), m \in {NoCap} \cup Caps :
          Step /\ Tree_init_identity(ident, m)
    \/ Step /\ set_root_none
    \/ \E r \in Constructed : Step /\ set_root_node(r)
    \/ \E ident \in IdentityOf(nnodes + 1) : Step /\ set_root_identity(ident)
    \/ Step /\ Tree_clear

SpecPyTree == Init /\ [][NextPyTree]_vars

\* ---- the Tree methods that take a node argument (N[T]): None stands for
\* the root, a Node for itself, and any other value x is wrapped:
\* node = Node[T](identity=x), a new node built on the default list.
ArgNone == [kind |-> "none", val |-> None]
ArgNode(n) == [kind |-> "node", val |-> n]
ArgIdentity(x) == [kind |-> "identity", val |-> x]

NodeArgs == {ArgNone} \cup {ArgNode(n) : n \in Constructed}
               \cup {ArgIdentity(identity[n]) : n \in Constructed}

\* the argument resolves to None: 'node = self.root' of an empty tree
ResolvesToNone(arg) == arg.kind = "none" /\ tree.root = None

\* the list object the resolved node's children attribute refers to; the
\* wrapper of an identity is not referred to after the call, so only its
\* list, the default list, is kept of it
ListOf(arg) ==
    CASE arg.kind = "none" -> children[tree.root]
      [] arg.kind = "node" -> children[arg.val]
      [] arg.kind = "identity" -> DefaultList

\* node.add_child(child) after both arguments are resolved: a child given as
\* an identity becomes a new Node(identity=x) on the default list.  No
\* capacity is tested.  On the None of an empty tree: AttributeError.
attach(op, args, node, child) ==
    /\ tree.made
    /\ child.kind # "none"
    /\ child.kind = "identity" => nnodes < MaxNodes
    /\ ~ResolvesToNone(node) => Len(lists[ListOf(node)]) < MaxLen
    /\ IF ResolvesToNone(node)
       THEN /\ last' = Query(op, args, FALSE, {}, "AttributeError", None, <<>>)
            /\ UNCHANGED NodeFields
       ELSE LET n == IF child.kind = "identity" THEN nnodes + 1 ELSE child.val
            IN /\ last' = Query(op, args, FALSE, {}, "", n, <<>>)
               /\ lists' = [lists EXCEPT ![ListOf(node)] = ListAppend(@, n)]
               /\ IF child.kind = "identity"
                  THEN /\ nnodes' = n
                       /\ identity' = [identity EXCEPT ![n] = child.val]
                       /\ parent' = [parent EXCEPT ![n] = None]
                       /\ children' = [children EXCEPT ![n] = DefaultList]
                  ELSE UNCHANGED <<nnodes, identity, parent, children>>
               /\ UNCHANGED max_children
    /\ UNCHANGED tree

\* Tree.add_child(node, child)
Tree_add_child(node, child) == attach("Tree.add_child", <<node, child>>, node, child)

\* Tree.insert_node(node, parent): parent.add_child(node)
insert_node(node, par) == attach("insert_node", <<node, par>>, par, node)

\* Tree.graft(node, other) where s is the root of the Tree other
graft(node, s) == attach("graft", <<node, ArgNode(s)>>, node, ArgNode(s))

\* Tree.graft_all(node, trees): one graft per tree, ss their roots
graft_all(node, ss) ==
    /\ tree.made
    /\ ~ResolvesToNone(node) => Len(lists[ListOf(node)]) + Len(ss) <= MaxLen
    /\ IF ResolvesToNone(node) /\ ss # <<>>
       THEN /\ last' = Query("graft_all", <<node>>, FALSE, {}, "AttributeError", None, <<>>)
            /\ UNCHANGED lists
       ELSE /\ last' = Query("graft_all", <<node>>, FALSE, {}, "", None, ss)
            /\ lists' = IF ss = <<>> THEN lists
                        ELSE [lists EXCEPT ![ListOf(node)] = ListExtend(@, ss)]
    /\ UNCHANGED <<nnodes, parent, identity, max_children, children, tree>>

\* Tree.remove_child(node, child): a child given as an identity is a new
\* Node, which Node_eq finds equal to no element of the list
Tree_remove_child(node, child) ==
    /\ tree.made
    /\ child.kind # "none"
    /\ IF ResolvesToNone(node)
       THEN /\ last' = Query("Tree.remove_child", <<node, child>>, FALSE, {},
                             "AttributeError", None, <<>>)
            /\ UNCHANGED lists
       ELSE LET r == IF child.kind = "node"
                     THEN list_remove(lists[ListOf(node)], child.val)
                     ELSE [lst |-> lists[ListOf(node)], err |-> "ValueError"]
            IN /\ last' = Query("Tree.remove_child", <<node, child>>, FALSE, {},
                                r.err, None, <<>>)
               /\ lists' = [lists EXCEPT ![ListOf(node)] = r.lst]
    /\ UNCHANGED <<nnodes, parent, identity, max_children, children, tree>>

\* Tree.get_children(node): the identities of the resolved node's children
Tree_get_children(node) ==
    /\ tree.made
    /\ last' = IF ResolvesToNone(node)
               THEN Query("Tree.get_children", <<node>>, FALSE, {}, "AttributeError",
                          None, <<>>)
               ELSE Query("Tree.get_children", <<node>>, FALSE, {}, "", None,
                          [i \in 1..Len(lists[ListOf(node)]) |->
                              identity[lists[ListOf(node)][i]]])
    /\ UNCHANGED <<nnodes, parent, identity, max_children, children, lists, tree>>

get_subtree_of_root(node) ==
    /\ tree.made
    /\ last' = Query("get_subtree", <<node>>, FALSE, {}, "", tree.root, <<>>)
    /\ UNCHANGED <<nnodes, parent, identity, max_children, children, lists, tree>>

\* Tree.get_subtree(node) for None or a Node: Tree[T](root=node), nothing is
\* tested; ret is the root of the Tree returned
get_subtree(node) ==
    /\ tree.made
    /\ last' = Query("get_subtree", <<node>>, FALSE, {}, "",
                     IF node.kind = "none" THEN tree.root ELSE node.val, <<>>)
    /\ UNCHANGED <<nnodes, parent, identity, max_children, children, lists, tree>>

\* Tree.contains_subtree(subtree), s the root of subtree: get_nodes() calls
\* self.root.get_nodes(), a method that class Node does not have (a result
\* would be ret = 1 for True, 0 for False)
contains_subtree(s) ==
    /\ tree.made
    /\ last' = Query("contains_subtree", <<ArgNode(s)>>, FALSE, {}, "AttributeError",
                     None, <<>>)
    /\ UNCHANGED <<nnodes, parent, identity, max_children, children, lists, tree>>

NextPyTreeOps ==
    \/ \E ident \in IdentityOf(nnodes + 1) :
          Tick /\ py_Node_init(None, ident, FALSE, <<>>, NoCap)
    \/ \E r \in Constructed, m \in {NoCap} \cup Caps : Step /\ Tree_init_node(r, m)
    \/ \E ident \in IdentityOf(nnodes + 1), m \in {NoCap} \cup Caps :
          Step /\ Tree_init_identity(ident, m)
    \/ \E node \in NodeArgs, child \in NodeArgs \cup {ArgIdentity(x) : x \in IdentityOf(nnodes + 1)} :
          Step /\ Tree_add_child(node, child)
    \/ \E node \in NodeArgs \cup {ArgIdentity(x) : x \in IdentityOf(nnodes + 1)}, par \in NodeArgs :
          Step /\ insert_node(node, par)
    \/ \E node \in NodeArgs, s \in Constructed : Step /\ graft(node, s)
    \/ \E node \in NodeArgs, ss \in SeqsUpTo(Constructed, MaxLen) :
          Step /\ graft_all(node, ss)
    \/ \E node \in NodeArgs, child \in NodeArgs : Step /\ Tree_remove_child(node, child)
    \/ \E node \in NodeArgs : Step /\ Tree_get_children(node)

SpecPyTreeOps == Init /\ [][NextPyTreeOps]_vars

\* get_subtree and contains_subtree on a Tree(r) made of a node r of a forest
\* built with pytrees nodes
InitPyTreeQueries ==
    \E f \in Forests(MaxTree), linked \in BOOLEAN, r \in 1..MaxTree :
        /\ tree = [made |-> TRUE, root |-> r, max_children |-> NoCap]
        /\ BuiltPyNodes(MaxTree, f, FALSE, linked)

NextPyTreeQueries ==
    \/ \E node \in {a \in NodeArgs : a.kind # "identity"} :
          get_subtree(node) /\ UNCHANGED ops
    \/ \E s \in Constructed : contains_subtree(s) /\ UNCHANGED ops

SpecPyTreeQueries == InitPyTreeQueries /\ [][NextPyTreeQueries]_vars

\* ------------------------------------ src/experimental/simplenode.py, capacity
\* node.children = cs: the setter makes the capacity test of the constructor
\* and then binds the node to the list object it was given
children_setter(n, cs) ==
    IF init_raises(Len(cs), max_children[n])
    THEN /\ last' = Call("children", FALSE, "ValueError", None)
         /\ UNCHANGED NodeFields
    ELSE /\ AssignList(n, cs)
         /\ last' = Call("children", FALSE, "", None)
         /\ UNCHANGED <<nnodes, parent, identity, max_children>>

\* A client that populates children in each of the four ways: the constructor
\* with a list of already constructed nodes, the children property,
\* add_children and add_child.
NextCapacity ==
    \/ \E ident \in IdentityOf(nnodes + 1), m \in {NoCap} \cup Caps,
          cs \in SeqsUpTo(Constructed, MaxLen) :
          Tick /\ Node_init(ident, FALSE, cs, m)
    \/ \E n \in Constructed, cs \in SeqsUpTo(Constructed, MaxLen) :
          Tick /\ children_setter(n, cs)
    \/ \E p \in Constructed, cs \in SeqsUpTo(Constructed, MaxLen) :
          Tick /\ add_children(p, cs)
    \/ \E p, c \in Constructed : Tick /\ add_child(p, c)

SpecCapacity == Init /\ [][NextCapacity]_vars

\* ------------------------------- Node.traverse of src/pytrees/node.py
NoList == [err |-> "", lst |-> <<>>]

\* inorder_traversal: children[0], the node, children[1], each of the two
\* subscripts guarded by has_children() only; a subscript past the end of
\* the list raises IndexError, which ends the whole call
RECURSIVE inorder_traversal(_)
inorder_traversal(n) ==
    IF ChildrenOf(n) = <<>> THEN [err |-> "", lst |-> <<n>>]
    ELSE LET first == inorder_traversal(ChildrenOf(n)[1])
         IN IF first.err # "" THEN first
            ELSE IF Len(ChildrenOf(n)) < 2 THEN [NoList EXCEPT !.err = "IndexError"]
            ELSE LET second == inorder_traversal(ChildrenOf(n)[2])
                 IN IF second.err # "" THEN second
                    ELSE [err |-> "", lst |-> first.lst \o <<n>> \o second.lst]

\* the while loop of depth_first_traversal: pop(), append, extend
RECURSIVE depth_first_loop(_, _)
depth_first_loop(stack, nodes) ==
    IF Len(stack) = 0 THEN nodes
    ELSE LET node == stack[Len(stack)]
         IN depth_first_loop(SubSeq(stack, 1, Len(stack) - 1) \o ChildrenOf(node),
                             Append(nodes, node))

depth_first_traversal(n) == depth_first_loop(<<n>>, <<>>)

TraversalTypes == {"preorder", "postorder", "inorder", "breadth-first", "depth-first"}

\* the if/elif chain of traverse
traverse_result(traversal_type, n) ==
    CASE traversal_type = "preorder" -> [NoList EXCEPT !.lst = py_preorder_traversal(n)]
      [] traversal_type = "postorder" -> [NoList EXCEPT !.lst = py_postorder_traversal(n)]
      [] traversal_type = "inorder" -> inorder_traversal(n)
      [] traversal_type = "breadth-first" -> [NoList EXCEPT !.lst = breadth_first_traversal(n)]
      [] traversal_type = "depth-first" -> [NoList EXCEPT !.lst = depth_first_traversal(n)]
      [] OTHER -> [NoList EXCEPT !.err = "ValueError"]

\* n.traverse(traversal_type); the call is remembered under the name of the
\* traversal type
py_traverse(traversal_type, n) ==
    /\ last' = Query(traversal_type, <<n>>, FALSE, {},
                     traverse_result(traversal_type, n).err, None,
                     traverse_result(traversal_type, n).lst)
    /\ UNCHANGED NodeVars

NextPyTraverse ==
    \E n \in Constructed, traversal_type \in TraversalTypes \cup {"levelorder"} :
        py_traverse(traversal_type, n)

SpecPyTraverse == InitPyForest /\ [][NextPyTraverse]_vars

\* ------------------------------------------- Node.copy of src/pytrees/node.py
\* return Node(self.parent, self.identity, self.children): the new node gets
\* the parent and the identity of n and, as its children, the list object of
\* n itself (max_children is left at None, so the constructor cannot raise)
copy(n) ==
    /\ nnodes < MaxNodes
    /\ LET c == nnodes + 1
       IN /\ nnodes' = c
          /\ parent' = [parent EXCEPT ![c] = parent[n]]
          /\ identity' = [identity EXCEPT ![c] = identity[n]]
          /\ children' = [children EXCEPT ![c] = children[n]]
          /\ last' = Call("copy", FALSE, "", c)
          /\ UNCHANGED <<max_children, lists>>

\* A client that gives every node it constructs a list of its own and an
\* identity of its own, sets parents, copies nodes, and adds and removes
\* children.
NextPyCopy ==
    \/ \E par \in {None} \cup Constructed, ident \in IdentityOf(nnodes + 1) :
          Tick /\ py_Node_init(par, ident, FALSE, <<>>, NoCap)
    \/ \E n \in Constructed, par \in {None} \cup Constructed : Tick /\ set_parent(n, par)
    \/ \E n \in Constructed : Tick /\ copy(n)
    \/ \E p, c \in Constructed : Tick /\ py_add_child(p, c)
    \/ \E p, c \in Constructed : Tick /\ py_remove_child(p, c)

SpecPyCopy == Init /\ [][NextPyCopy]_vars

\* ===================================================================== claims
Mutators == {"add_child", "add_children", "remove_child", "remove_children",
             "clear_children"}

\* C1: whenever p.add_child(c) returns without error, c.parent is p and c is
\* the last element of p.children.
C1_AddChildLinksChild ==
    [][\A p, c \in Constructed :
          (last'.op = "add_child" /\ last'.err = "" /\ add_child(p, c))
          => /\ parent'[c] = p
             /\ Len(lists'[children'[p]]) = Len(ChildrenOf(p)) + 1
             /\ lists'[children'[p]][Len(lists'[children'[p]])] = c]_vars

\* an add_child that appended c behind an earlier child of p
C1_Witness ==
    /\ last.op = "add_child" /\ last.err = ""
    /\ \E p, c \in Constructed :
          /\ p # c /\ parent[c] = p
          /\ Len(ChildrenOf(p)) = 2
          /\ ChildrenOf(p)[2] = c /\ ChildrenOf(p)[1] # c

\* C2 (as claimed): a successful p.remove_child(c) with c in p.children
\* leaves c.parent = None, c not in p.children, and p.children equal to the
\* previous sequence with c deleted.
C2_RemoveChildUnlinks ==
    [][\A p, c \in Constructed :
          (Contains(ChildrenOf(p), c) /\ remove_child(p, c))
          => /\ last'.err = ""
             /\ parent'[c] = None
             /\ ~Contains(lists'[children'[p]], c)
             /\ lists'[children'[p]] = ListRemove(ChildrenOf(p), c)]_vars

\* C3 (as claimed): the calls of pytrees Node keep "c.parent is p exactly
\* when c is in p.children".
C3_Linked ==
    \A p, c \in Constructed : (parent[c] = p) <=> Contains(ChildrenOf(p), c)
C3_ParentIffChild ==
    [][(C3_Linked /\ last'.op # "Node") => C3_Linked']_vars

\* C4 (as claimed): the mutators never make a node appear in the children
\* sequences of two different nodes, nor twice in one sequence.
C4_OneOwner ==
    \A c \in Constructed :
        /\ \A p \in Constructed : Count(ChildrenOf(p), c) <= 1
        /\ \A p, q \in Constructed :
              (Contains(ChildrenOf(p), c) /\ Contains(ChildrenOf(q), c)) => p = q
C4_NoSharedChild ==
    [][(C4_OneOwner /\ last'.op \in Mutators) => C4_OneOwner']_vars

\* C5 (as claimed): no node is reachable from itself by one or more parent
\* links, nor by one or more children links.
RECURSIVE C5_Below(_, _)
C5_Below(S, k) ==
    IF k = 0 THEN S
    ELSE C5_Below(S \cup UNION {Elems(ChildrenOf(n)) : n \in S}, k - 1)
C5_Acyclic ==
    \A n \in Constructed :
        /\ \A k \in 1..MaxNodes : Up(n, k) # n
        /\ n \notin C5_Below(Elems(ChildrenOf(n)), MaxNodes)

\* C6 (as claimed): a Node constructed without a children argument has an
\* empty children sequence at the moment of construction.
C6_FreshNodeHasNoChildren ==
    (last.op = "Node" /\ last.dflt /\ last.err = "") => ChildrenOf(last.ret) = <<>>

\* C7: add_child on a node that has max_children children raises and changes
\* no children sequence and no parent; a rejected add_children changes
\* nothing either.
C7_CapacityFailureKeepsState ==
    [][/\ \A p, c \in Constructed :
             (last'.op = "add_child" /\ max_children[p] # NoCap
                 /\ Len(ChildrenOf(p)) = max_children[p] /\ add_child(p, c))
             => (last'.err = "ValueError" /\ lists' = lists /\ parent' = parent
                    /\ children' = children)
       /\ (last'.op = "add_children" /\ last'.err # "")
             => (lists' = lists /\ parent' = parent /\ children' = children)]_vars

\* the third add_child on a node with max_children = 2 has failed and the
\* two children are still there
C7_Witness ==
    /\ last.op = "add_child" /\ last.err = "ValueError"
    /\ \E p \in Constructed : max_children[p] = 2 /\ Len(ChildrenOf(p)) = 2

\* C8 (as claimed): every node with max_children configured has at most
\* max_children children.
C8_CapacityBound ==
    \A n \in Constructed :
        max_children[n] # NoCap => Len(ChildrenOf(n)) <= max_children[n]

C10_LcaOfAncestor ==
    [][\A a, b \in Constructed :
          (lowest_common_ancestor(a, b)
              /\ (a = b \/ \E k \in 1..MaxNodes : Up(b, k) = a))
          => (last'.err = "" /\ last'.ret = a)]_vars

\* ---- reference notions for the queries, read off the parent links
\* x is n or an ancestor of n
AncestorOrSelf(x, n) == x # None /\ \E k \in 0..nnodes : Up(n, k) = x

\* number of edges from n up to its root
Depth(n) == Cardinality({k \in 1..nnodes : Up(n, k) # None})

CommonAncestors(a, b) ==
    {x \in Constructed : AncestorOrSelf(x, a) /\ AncestorOrSelf(x, b)}

\* C11: simplenode's lowest_common_ancestor(a, b) returns, for two nodes of
\* the same tree, the deepest node that is an ancestor of or equal to both,
\* and raises an error when the two parent chains share no node.
C11_LcaIsDeepestCommon ==
    last.op = "lowest_common_ancestor" =>
        LET common == CommonAncestors(last.args[1], last.args[2])
        IN IF common = {} THEN last.err = "ValueError"
           ELSE /\ last.err = ""
                /\ last.ret \in common
                /\ \A x \in common : Depth(x) <= Depth(last.ret)

\* the deepest common ancestor is neither of the two nodes nor the root
C11_Witness ==
    /\ last.op = "lowest_common_ancestor"
    /\ last.err = ""
    /\ last.ret \notin {last.args[1], last.args[2]}
    /\ parent[last.ret] # None

\* the deepest common ancestor-or-self of two nodes of the same tree
Lca(a, b) ==
    CHOOSE x \in CommonAncestors(a, b) :
        \A y \in CommonAncestors(a, b) : Depth(y) <= Depth(x)

\* the parent chain from n upwards, up to and excluding its ancestor-or-self l
ChainBelow(n, l) == [i \in 1..(Depth(n) - Depth(l)) |-> Up(n, i - 1)]

\* C12: get_path(a, b) for two nodes of the same tree is the upward chain
\* from a excluding the LCA, then the LCA, then the reversed upward chain from
\* b excluding the LCA; so no node occurs twice and no proper ancestor of the
\* LCA occurs in it.
C12_PathThroughLca ==
    (last.op = "get_path" /\ CommonAncestors(last.args[1], last.args[2]) # {}) =>
        LET a == last.args[1]
            b == last.args[2]
            l == Lca(a, b)
        IN /\ last.err = ""
           /\ last.lst = ChainBelow(a, l) \o <<l>> \o Reverse(ChainBelow(b, l))
           /\ \A x \in Constructed : Count(last.lst, x) <= 1
           /\ \A x \in Elems(last.lst) : AncestorOrSelf(l, x)

\* number of parent-child edges between two nodes of the same tree
Edges(a, b) == Depth(a) + Depth(b) - 2 * Depth(Lca(a, b))

\* C13: get_distance(a, b) is the number of parent-child edges between a and
\* b; on the chain root -> A -> B -> C, root.get_distance(C) is 3 and
\* root.get_path(C) is [root, A, B, C].
C13_DistanceIsEdges ==
    /\ (last.op = "get_distance" /\ CommonAncestors(last.args[1], last.args[2]) # {})
          => (last.err = "" /\ last.ret = Edges(last.args[1], last.args[2]))
    /\ (last.op = "get_path" /\ last.args = <<1, 4>> /\ nnodes = 4
           /\ parent[2] = 1 /\ parent[3] = 2 /\ parent[4] = 3)
          => last.lst = <<1, 2, 3, 4>>

\* the tree is the 12-node example
IsExample == nnodes = ExampleSize

\* C14: get_distance(other) is len(get_path(other)); on the 12-node example
\* the lowest common ancestor of 5 and 9 has identity 2 and
\* get_distance(5, 9) is 6.
C14_DistanceOnExample ==
    /\ last.op = "get_distance" =>
          last.ret = Len(sn_path(last.args[1], last.args[2]).lst)
    /\ (IsExample /\ last.op = "lowest_common_ancestor" /\ last.args = <<5, 9>>)
          => (last.err = "" /\ identity[last.ret] = 2)
    /\ (IsExample /\ last.op = "get_distance" /\ last.args = <<5, 9>>)
          => last.ret = 6

PreKinds == {"preorder", "py_preorder"}
PostKinds == {"postorder", "py_postorder"}
LevelKinds == {"levelorder", "breadth_first"}

Pos(s, x) == CHOOSE i \in 1..Len(s) : s[i] = x

\* x and y are in the subtrees of two children of one node, x in the earlier
SiblingSubtreesInOrder(x, y) ==
    \E p \in Constructed : \E i, j \in 1..Len(ChildrenOf(p)) :
        /\ i < j
        /\ AncestorOrSelf(ChildrenOf(p)[i], x)
        /\ AncestorOrSelf(ChildrenOf(p)[j], y)

C17_StopBefore ==
    (last.op \in Kinds /\ last.hascb) =>
        LET full == Traversal(last.op, last.args[1], FALSE, {})
            stops == {i \in 1..Len(full) : full[i] \in last.cb}
        IN last.lst = IF stops = {} THEN full ELSE SubSeq(full, 1, Min(stops) - 1)

\* the trees rooted at a and b have the same identities, max_children, shape
\* and children order, and every child below b has its parent link set
RECURSIVE SameTree(_, _)
SameTree(a, b) ==
    /\ identity[a] = identity[b]
    /\ max_children[a] = max_children[b]
    /\ Len(ChildrenOf(a)) = Len(ChildrenOf(b))
    /\ \A i \in 1..Len(ChildrenOf(a)) :
          /\ parent[ChildrenOf(b)[i]] = b
          /\ SameTree(ChildrenOf(a)[i], ChildrenOf(b)[i])

\* C18: Node.from_dict(n.to_dict()) succeeds for every tree built with
\* add_child, with or without max_children and also when nodes are filled to
\* exactly max_children, and yields a tree with the same identities, shape
\* and children order whose children have their parent set.
C18_RoundTrip ==
    last.op = "from_dict" =>
        /\ last.err = ""
        /\ last.ret \notin 1..MaxTree
        /\ SameTree(last.args[1], last.ret)

\* C19: pytrees get_siblings returns the empty list on a node that is
\* attached nowhere, and on a node c attached to a parent with add_child it
\* returns the parent's other children in children order, never c itself.
C19_SiblingsAreOtherChildren ==
    last.op = "get_siblings" =>
        LET c == last.args[1]
            holders == {p \in Constructed : Contains(ChildrenOf(p), c)}
        IN /\ last.err = ""
           /\ ~Contains(last.lst, c)
           /\ holders = {} => last.lst = <<>>
           /\ \A p \in holders :
                 last.lst = SelectSeq(ChildrenOf(p), LAMBDA x : x # c)

\* C20 as claimed: once a Tree has been constructed, tree.root is a Node and
\* never None, whatever set_root and clear calls follow.
C20_RootNeverNone == tree.made => tree.root # None

\* C20, amended: tree.root is a Node or None.  It becomes None only by
\* Tree() without a root argument, set_root(None) or clear() (the empty tree:
\* is_empty() is True), and after a successful construction from a Node or
\* from a bare identity it is a Node (a step that constructs a Node and
\* changes the tree is Tree(identity) or set_root(identity)).
C20_RootNoneOnlyWhenEmptied ==
    [][/\ tree'.made => tree'.root \in {None} \cup (1..nnodes')
       /\ (tree'.made /\ tree'.root = None /\ ~(tree.made /\ tree.root = None))
             => last'.op \in {"Tree()", "set_root(None)", "Tree.clear"}
       /\ (last'.op \in {"Tree(node)", "Node"} /\ last'.err = "" /\ tree' # tree)
             => (tree'.made /\ tree'.root \in 1..nnodes')]_vars

\* clear() has emptied a tree whose root was a node
C20_Witness ==
    /\ tree.made
    /\ tree.root = None
    /\ last.op = "Tree.clear"
    /\ nnodes >= 1

\* the nodes reachable from n through children lists, n included
ReachableFrom(n) == C5_Below({n}, nnodes)

\* every node reachable from the root of a Tree with max_children = m has at
\* most m children
C21_WithinCapacity ==
    (tree.made /\ tree.root # None /\ tree.max_children # NoCap) =>
        \A n \in ReachableFrom(tree.root) : Len(ChildrenOf(n)) <= tree.max_children

\* C21 (as claimed): a Tree with max_children = m cannot be constructed from
\* a Node with more than m children, and Tree.add_child, insert_node, graft
\* and graft_all keep every node reachable from the root at m children or
\* fewer.
C21_TreeCapacityKept ==
    [][/\ \A r \in Constructed, m \in Caps :
             (last'.op = "Tree(node)" /\ Len(ChildrenOf(r)) > m /\ Tree_init_node(r, m))
             => last'.err # ""
       /\ (C21_WithinCapacity
              /\ last'.op \in {"Tree.add_child", "insert_node", "graft", "graft_all"})
             => C21_WithinCapacity']_vars

\* n belongs to the tree: its parent chain reaches tree.root, or it is
\* reachable from tree.root through children lists
BelongsToTree(n) ==
    /\ tree.root # None
    /\ \/ \E k \in 0..nnodes : Up(n, k) = tree.root
       \/ n \in ReachableFrom(tree.root)

\* C22 (as claimed): get_subtree(node) returns a Tree whose root is that very
\* node when the node belongs to the tree, and raises an error when it does
\* not.
C22_SubtreeOnlyOfMembers ==
    (last.op = "get_subtree" /\ last.args[1].kind = "node") =>
        IF BelongsToTree(last.args[1].val)
        THEN last.err = "" /\ last.ret = last.args[1].val
        ELSE last.err # ""

\* C23 (as claimed): t.contains_subtree(s) returns, without an error, whether
\* the root of s is one of the nodes reachable from the root of t.
C23_ContainsSubtreeAnswers ==
    last.op = "contains_subtree" =>
        /\ last.err = ""
        /\ last.ret = 1 <=> (tree.root # None
                               /\ last.args[1].val \in ReachableFrom(tree.root))

\* C24 (as claimed): after tree.set_root(x) with a Node x whose child count
\* respects max_children, tree.root is x; with a bare identity x, tree.root
\* is a node with identity x.
C24_SetRootSetsRoot ==
    [][/\ \A r \in Constructed :
             (last'.op = "set_root(node)" /\ last'.err = "" /\ set_root_node(r))
             => tree'.root = r
       /\ \A x \in IdentityOf(nnodes + 1) :
             (last'.op = "Node" /\ set_root_identity(x))
             => (tree'.root # None /\ identity'[tree'.root] = x)]_vars

\* the nodes of the tree that carry identity x
Carrying(x) ==
    IF tree.root = None THEN {}
    ELSE {n \in ReachableFrom(tree.root) : identity[n] = x}

\* C25 (as claimed): Tree.add_child(x, y) with identities attaches a child
\* of identity y under the node of the tree that carries x, so that the child
\* is reachable from tree.root; and Tree.remove_child(x, y) with the
\* identities of a node of the tree and of one of its children succeeds and
\* removes that child.
C25_ByIdentity ==
    [][/\ (last'.op = "Tree.add_child" /\ last'.args[1].kind = "identity"
              /\ last'.args[2].kind = "identity" /\ Carrying(last'.args[1].val) # {})
             => /\ last'.err = ""
                /\ last'.ret \in ReachableFrom(tree.root)'
                /\ \A n \in Carrying(last'.args[1].val) :
                      Contains(lists'[children'[n]], last'.ret)
       /\ (last'.op = "Tree.remove_child" /\ last'.args[1].kind = "identity"
              /\ last'.args[2].kind = "identity"
              /\ \E n \in Carrying(last'.args[1].val) :
                    \E i \in 1..Len(ChildrenOf(n)) :
                        identity[ChildrenOf(n)[i]] = last'.args[2].val)
             => /\ last'.err = ""
                /\ \A n \in Carrying(last'.args[1].val) :
                      \A i \in 1..Len(lists'[children'[n]]) :
                          identity[lists'[children'[n]][i]] # last'.args[2].val]_vars

\* C22, amended: get_subtree(node) returns, for every Node, a Tree whose root
\* is that very node, whether or not the node belongs to the tree; it makes
\* no membership test and raises no error.
C22_SubtreeOfAnyNode ==
    (last.op = "get_subtree" /\ last.args[1].kind = "node") =>
        (last.err = "" /\ last.ret = last.args[1].val)

\* get_subtree has returned for a node that does not belong to the tree
C22_Witness ==
    /\ last.op = "get_subtree"
    /\ last.args[1].kind = "node"
    /\ ~BelongsToTree(last.args[1].val)
    /\ last.ret = last.args[1].val

\* C26 (as claimed): in every state reached through the constructor, add_child,
\* add_children and the remove operations, upwards_traversal started at any
\* node ends: following parent links from the node reaches, within as many
\* steps as there are nodes, a node that has no parent.
C26_UpwardsTerminates ==
    \A n \in Constructed : \E k \in 1..nnodes : Up(n, k) = None

\* C27 (as claimed): on a node with max_children = m the constructor with a
\* children list, an assignment to the children property and add_children
\* each succeed exactly when the resulting number of children is at most m.
C27_SameCapacityBound ==
    [][/\ \A ident \in IdentityOf(nnodes + 1), m \in Caps,
             cs \in SeqsUpTo(Constructed, MaxLen) :
             Node_init(ident, FALSE, cs, m) => (last'.err = "" <=> Len(cs) <= m)
       /\ \A n \in Constructed, cs \in SeqsUpTo(Constructed, MaxLen) :
             (max_children[n] # NoCap /\ children_setter(n, cs))
             => (last'.err = "" <=> Len(cs) <= max_children[n])
       /\ \A p \in Constructed, cs \in SeqsUpTo(Constructed, MaxLen) :
             (max_children[p] # NoCap /\ add_children(p, cs))
             => (last'.err = ""
                    <=> Len(ChildrenOf(p)) + Len(cs) <= max_children[p])]_vars

\* C28 (as claimed): add_child, add_children, remove_child and clear_children
\* on a node p leave the children sequence of every other node as it was, and
\* no two distinct nodes are bound to the same list object.
C28_OthersKept(p) ==
    \A q \in Constructed \ {p} : lists'[children'[q]] = lists[children[q]]
C28_OwnChildrenList ==
    [][/\ \A p, c \in Constructed :
             (add_child(p, c) \/ remove_child(p, c)) => C28_OthersKept(p)
       /\ \A p \in Constructed, cs \in SeqsUpTo(Constructed, MaxLen) :
             add_children(p, cs) => C28_OthersKept(p)
       /\ \A p \in Constructed : clear_children(p) => C28_OthersKept(p)
       /\ \A a, b \in 1..nnodes' : a # b => children'[a] # children'[b]]_vars

\* C29 (as claimed): n.traverse(t) with t one of the five accepted traversal
\* types returns without error a list holding every node of the subtree of n
\* exactly once and no other node, whatever the number of children per node.
C29_TraverseVisitsAll ==
    last.op \in TraversalTypes =>
        /\ last.err = ""
        /\ Elems(last.lst) = ReachableFrom(last.args[1])
        /\ \A x \in Elems(last.lst) : Count(last.lst, x) = 1

\* In SpecPyCopy the constructor gives each node an identity no other node
\* has and copy hands the identity on, so two distinct nodes carry the same
\* identity exactly when one was made from the other by copy.
C30_CopyOf(c, n) == c # n /\ identity[c] = identity[n]

\* C30 (as claimed): when c is a copy of n, adding or removing a child on the
\* one leaves the children of the other unchanged.
C30_CopyIndependent ==
    [][\A c, n, x \in Constructed :
          (C30_CopyOf(c, n) /\ (py_add_child(c, x) \/ py_remove_child(c, x)))
          => lists'[children'[n]] = lists[children[n]]]_vars

====
